---- MODULE Spec2Model ----
(***************************************************************************)
(* idiff: pixel-by-pixel image comparison (src/src/lib.rs).                *)
(*                                                                         *)
(* The module models run() as a step machine (SpecRun), and the two        *)
(* functions the unit tests call directly, percentage_difference           *)
(* (SpecScan) and highlight (SpecHighlight), on bounded inputs.            *)
(***************************************************************************)
EXTENDS Integers, Sequences, FiniteSets

VARIABLES
    cli,                     \* Cli: [strict, highlight, block]
    src,                     \* source RgbaImage: [width, height, px]
    tgt,                     \* target RgbaImage
    pc,                      \* position in run() / in the called function
    ret,                     \* who called percentage_difference: "run" | "caller"
    resolved,                \* Result of Bounds::get_max_bounds, NoResult before
    bounds,                  \* comparison Bounds handed to the scan
    start_height,            \* outer loop cursor of percentage_difference
    start_width,             \* inner loop cursor of percentage_difference
    total_diff,              \* total_diff of percentage_difference
    bounds_with_difference,  \* Vec<Bounds> built by the scan / given to highlight
    candidates,              \* history: every current_bound formed by the scan
    diff,                    \* returned percentage as a fraction, NoPercentage before
    tgt_copy,                \* the buffer highlight mutates, NoImage before
    prev_copy,               \* history: tgt_copy before the latest highlight call
    err,                     \* which failure ended the run, "none" otherwise
    exit_code,               \* "running" | "success" | "failure" | "panic"
    output_written,          \* TRUE once tgt_copy.save returned
    steps                    \* history: the operations of run() in execution order

vars == << cli, src, tgt, pc, ret, resolved, bounds, start_height, start_width,
           total_diff, bounds_with_difference, candidates, diff, tgt_copy,
           prev_copy, err, exit_code, output_written, steps >>

-----------------------------------------------------------------------------
(* Bounds of the model *)

\* largest small image side
MaxDim == 3
\* one large image side, so that the default block size fits the image
BigDim == 11
\* largest explicit small block size
MaxBlock == 4
\* most pixels at which the two buffers of a direct scan differ
MaxDiffs == 2
\* largest min_width / min_height of the Bounds of a direct scan
MaxMin == 1
\* side of the buffer highlight is called on directly
HlDim == 3
\* longest Bounds sequence highlight is called with directly
MaxBounds == 2

-----------------------------------------------------------------------------
(* Program constants *)

\* default_value_t of --block
DefaultBlock == 10
\* 2^16; a u32 is two 16-bit halves
Pow16 == 65536

\* image::Rgba<u8> values
BLANK == << 0, 0, 0, 0 >>
MARK == << 10, 10, 10, 255 >>
OPAQUE == << 0, 0, 0, 255 >>
RED == << 255, 0, 0, 255 >>

Min(a, b) == IF a <= b THEN a ELSE b

-----------------------------------------------------------------------------
(* Values *)

NoResult == [tag |-> "None"]
NoBounds == [none |-> TRUE]
NoImage == [none |-> TRUE]
NoPercentage == << >>

Ok(v) == [tag |-> "Ok", val |-> v]
Err(m) == [tag |-> "Err", msg |-> m]

\* image::ImageBuffer::new(w, h): every pixel zeroed
NewImage(w, h) ==
    [width |-> w, height |-> h,
     px |-> [p \in (0 .. w - 1) \X (0 .. h - 1) |-> BLANK]]

\* img.dimensions()
dimensions(img) == << img.width, img.height >>

\* img.get_pixel(x, y)
get_pixel(img, x, y) == img.px[<< x, y >>]

-----------------------------------------------------------------------------
(* u32 arithmetic: a product is formed from 16-bit halves, so that the     *)
(* model decides overflow inside TLC's 32-bit integers.              *)

MulOverflows(a, b) ==
    LET al == a % Pow16
        ah == a \div Pow16
        bl == b % Pow16
        bh == b \div Pow16
    IN  \/ ah * bh > 0
        \/ ah * bl + al * bh + ((al * bl) \div Pow16) >= Pow16

\* a.wrapping_mul(b): the low 32 bits of the product
WrappingMul(a, b) ==
    LET al == a % Pow16
        ah == a \div Pow16
        bl == b % Pow16
        bh == b \div Pow16
    IN  al * bl + ((ah * bl + al * bh) % Pow16) * Pow16

-----------------------------------------------------------------------------
(* Dimensions and Bounds *)

Dimensions_from(d) == << d[1], d[2] >>

\* derived Ord of the tuple struct: lexicographic on (width, height)
Dimensions_cmp(d1, d2) ==
    IF d1[1] < d2[1] THEN "Less"
    ELSE IF d1[1] > d2[1] THEN "Greater"
    ELSE IF d1[2] < d2[2] THEN "Less"
    ELSE IF d1[2] > d2[2] THEN "Greater"
    ELSE "Equal"

same(d1, d2) == Dimensions_cmp(d1, d2) = "Equal"

Bounds_new(min_width, max_width, min_height, max_height) ==
    [min_width |-> min_width, max_width |-> max_width,
     min_height |-> min_height, max_height |-> max_height]

\* faulty variant: refuses only when both sides are 0 (&& for ||)
get_max_bounds_both_zero(s, t) ==
    LET max_width == Min(s[1], t[1])
        max_height == Min(s[2], t[2])
    IN  IF max_width = 0 /\ max_height = 0
        THEN Err("Maximum width / height cannot be ZERO (0).")
        ELSE Ok(Bounds_new(0, max_width, 0, max_height))

\* faulty variant: takes the source's width instead of the smaller width
get_max_bounds_source_width(s, t) ==
    LET max_width == s[1]
        max_height == Min(s[2], t[2])
    IN  IF max_width = 0 \/ max_height = 0
        THEN Err("Maximum width / height cannot be ZERO (0).")
        ELSE Ok(Bounds_new(0, max_width, 0, max_height))

get_max_bounds(s, t) ==
    LET max_width == Min(s[1], t[1])
        max_height == Min(s[2], t[2])
    IN  IF max_width = 0 \/ max_height = 0
        THEN Err("Maximum width / height cannot be ZERO (0).")
        ELSE Ok(Bounds_new(0, max_width, 0, max_height))

is_greater_than(b, other) == WrappingMul(b.max_width, b.max_height) > other

-----------------------------------------------------------------------------
(* percentage_difference and pixel_difference *)

\* the pixels the two nested loops of pixel_difference visit
PixelsOf(b) ==
    (b.min_width .. b.max_width - 1) \X (b.min_height .. b.max_height - 1)

\* faulty variant: compares the colour channels and not the alpha channel
pixel_difference_rgb(s, t, b) ==
    Cardinality({p \in PixelsOf(b) :
        \E c \in 1 .. 3 : get_pixel(s, p[1], p[2])[c] # get_pixel(t, p[1], p[2])[c]})

\* diff += 1 for every visited pixel at which the Rgba values are unequal
pixel_difference(s, t, b) ==
    Cardinality({p \in PixelsOf(b) : get_pixel(s, p[1], p[2]) # get_pixel(t, p[1], p[2])})

\* faulty variant: a block that would cross the max edge is left empty
\* instead of clipped
CurrentBoundNoFringe(b, sw, sh, block) ==
    LET max_width == IF sw + block <= b.max_width THEN sw + block ELSE sw
        max_height == IF sh + block <= b.max_height THEN sh + block ELSE sh
    IN  Bounds_new(sw, max_width, sh, max_height)

\* current_bound of one iteration of the scan
CurrentBound(b, sw, sh, block) ==
    LET max_width == Min(sw + block, b.max_width)
        max_height == Min(sh + block, b.max_height)
    IN  Bounds_new(sw, max_width, sh, max_height)

\* the inner stepped range yields sw + block next, while below max_width
NextStartWidth(b, sw, block) ==
    IF sw + block < b.max_width THEN sw + block ELSE b.min_width

\* the outer stepped range advances when the inner one is exhausted
NextStartHeight(b, sw, sh, block) ==
    IF sw + block < b.max_width THEN sh ELSE sh + block

RECURSIVE Gcd(_, _)
Gcd(a, b) == IF b = 0 THEN a ELSE Gcd(b, a % b)

\* a quotient n / d in lowest terms; d = 0 stands for the float's NaN / inf
Fraction(n, d) ==
    LET g == Gcd(n, d)
    IN  IF g = 0 THEN << 0, 0 >> ELSE << n \div g, d \div g >>

\* ((total_diff as f32) / ((max_height * max_width) as f32)) * 100.0, kept
\* as the exact quotient (both casts are exact below 2^24)
diff_percentage(total, b) ==
    Fraction(total * 100, WrappingMul(b.max_height, b.max_width))

\* diff == 0.0
IsZero(p) == p[1] = 0 /\ p[2] # 0

-----------------------------------------------------------------------------
(* highlight and copy_image *)

\* faulty variant: the bottom row is drawn at max_height, not max_height - 1
WritesOfBottomAtMax(b) ==
    {<< x, b.min_height >> : x \in b.min_width .. b.max_width - 1}
        \cup {<< x, b.max_height >> : x \in b.min_width .. b.max_width - 1}
        \cup {<< b.min_width, y >> : y \in b.min_height .. b.max_height - 1}
        \cup {<< b.max_width - 1, y >> : y \in b.min_height .. b.max_height - 1}

\* the pixels the two loops of highlight write for one bound
WritesOf(b) ==
    {<< x, b.min_height >> : x \in b.min_width .. b.max_width - 1}
        \cup {<< x, b.max_height - 1 >> : x \in b.min_width .. b.max_width - 1}
        \cup {<< b.min_width, y >> : y \in b.min_height .. b.max_height - 1}
        \cup {<< b.max_width - 1, y >> : y \in b.min_height .. b.max_height - 1}

\* faulty variant: a relative write, which flips a red pixel back
highlight_bound_toggle(img, b) ==
    LET writes == WritesOf(b)
    IN  [img EXCEPT !.px = [p \in DOMAIN img.px |->
                                IF p \in writes
                                THEN (IF img.px[p] = RED THEN BLANK ELSE RED)
                                ELSE img.px[p]]]

\* one iteration of `for bound in bounds`
highlight_bound(img, b) ==
    LET writes == WritesOf(b)
    IN  [img EXCEPT !.px = [p \in DOMAIN img.px |->
                                IF p \in writes THEN RED ELSE img.px[p]]]

RECURSIVE highlight(_, _)
highlight(img, bs) ==
    IF bs = << >> THEN img
    ELSE highlight(highlight_bound(img, Head(bs)), Tail(bs))

\* get_pixel_mut panics on a coordinate outside the image (a wrapped or
\* underflowed max - 1 is outside it too)
HighlightPanics(img, bs) ==
    \E i \in 1 .. Len(bs) : ~(WritesOf(bs[i]) \subseteq DOMAIN img.px)

\* a new buffer of the same dimensions, filled by copy_from
copy_image(img) ==
    [width |-> dimensions(img)[1], height |-> dimensions(img)[2],
     px |-> [p \in (0 .. img.width - 1) \X (0 .. img.height - 1) |-> get_pixel(img, p[1], p[2])]]

-----------------------------------------------------------------------------
(* Inputs *)

\* the pixel a test writes into the target at p; one kind differs from a
\* zeroed pixel in every channel, the other in the alpha channel alone
DiffPixel(p) == IF (p[1] + p[2]) % 2 = 0 THEN MARK ELSE OPAQUE

PutPixels(img, D) ==
    [img EXCEPT !.px = [p \in DOMAIN img.px |->
                            IF p \in D THEN DiffPixel(p) ELSE img.px[p]]]

\* image sizes of a run: every small size, zero sides included, and one large
RunDimensions == ((0 .. MaxDim) \X (0 .. MaxDim)) \cup {<< BigDim, BigDim >>}

\* --block is given only together with --highlight; otherwise the default
BlockValues(hl) ==
    IF hl THEN (0 .. MaxBlock) \cup {DefaultBlock, Pow16} ELSE {DefaultBlock}

\* first and last pixel of a w x h image
Corners(w, h) == {<< 0, 0 >>, << w - 1, h - 1 >>} \cap ((0 .. w - 1) \X (0 .. h - 1))

\* at most MaxDiffs positions of a MaxDim x MaxDim buffer
DiffSets ==
    {D \in SUBSET ((0 .. MaxDim - 1) \X (0 .. MaxDim - 1)) : Cardinality(D) <= MaxDiffs}

\* the Bounds inside a w x h buffer with min_width, min_height <= m, none empty
BoundsInside(w, h, m) ==
    {Bounds_new(a, b, c, d) : << a, b, c, d >> \in
        {q \in (0 .. m) \X (1 .. w) \X (0 .. m) \X (1 .. h) : q[1] < q[2] /\ q[3] < q[4]}}

\* a buffer whose pixels are not all alike, some of them red already
Patterned(w, h) ==
    [width |-> w, height |-> h,
     px |-> [p \in (0 .. w - 1) \X (0 .. h - 1) |->
                CASE (p[1] + 2 * p[2]) % 4 = 0 -> BLANK
                  [] (p[1] + 2 * p[2]) % 4 = 1 -> MARK
                  [] (p[1] + 2 * p[2]) % 4 = 2 -> RED
                  [] OTHER -> OPAQUE]]

-----------------------------------------------------------------------------
(* Initial states *)

Idle ==
    /\ resolved = NoResult
    /\ start_height = 0
    /\ start_width = 0
    /\ total_diff = 0
    /\ candidates = << >>
    /\ diff = NoPercentage
    /\ prev_copy = NoImage
    /\ err = "none"
    /\ exit_code = "running"
    /\ output_written = FALSE
    /\ steps = << >>

\* the process starts: arguments parsed, two image files on disk
Init ==
    /\ \E sd \in RunDimensions, td \in RunDimensions, strict \in BOOLEAN, hl \in BOOLEAN :
         \E blk \in BlockValues(hl), D \in SUBSET Corners(td[1], td[2]) :
            /\ cli = [strict |-> strict, highlight |-> hl, block |-> blk]
            /\ src = NewImage(sd[1], sd[2])
            /\ tgt = PutPixels(NewImage(td[1], td[2]), D)
    /\ pc = "open"
    /\ ret = "run"
    /\ bounds = NoBounds
    /\ bounds_with_difference = << >>
    /\ tgt_copy = NoImage
    /\ Idle

\* a direct call percentage_difference(&src, &tgt, &bounds, block)
InitScan ==
    /\ \E D \in DiffSets, b \in BoundsInside(MaxDim, MaxDim, MaxMin), blk \in 1 .. MaxBlock :
            /\ cli = [strict |-> FALSE, highlight |-> FALSE, block |-> blk]
            /\ src = NewImage(MaxDim, MaxDim)
            /\ tgt = PutPixels(NewImage(MaxDim, MaxDim), D)
            /\ bounds = b
    /\ pc = "percentage_difference"
    /\ ret = "caller"
    /\ bounds_with_difference = << >>
    /\ tgt_copy = NoImage
    /\ Idle

\* a caller about to call highlight on a clone, its vec! of Bounds still empty
InitHighlight ==
    /\ tgt = Patterned(HlDim, HlDim)
    /\ tgt_copy = Patterned(HlDim, HlDim)
    /\ bounds_with_difference = << >>
    /\ cli = [strict |-> FALSE, highlight |-> TRUE, block |-> DefaultBlock]
    /\ src = NewImage(HlDim, HlDim)
    /\ pc = "highlight"
    /\ ret = "caller"
    /\ bounds = NoBounds
    /\ Idle

-----------------------------------------------------------------------------
(* run(): one action per operation, in the order of the code *)

inputs == << cli, src, tgt >>
scanVars == << start_height, start_width, total_diff, bounds_with_difference, candidates >>

\* std::process::exit(1) after an error message
Fail(e) ==
    /\ pc' = "exit"
    /\ exit_code' = "failure"
    /\ err' = e

\* a panic unwinds out of run()
Panic(e) ==
    /\ pc' = "exit"
    /\ exit_code' = "panic"
    /\ err' = e

\* std::process::exit(0), or run() returning
Succeed ==
    /\ pc' = "exit"
    /\ exit_code' = "success"
    /\ err' = err

Goto(l) ==
    /\ pc' = l
    /\ UNCHANGED << exit_code, err >>

\* the two paths exist and both files decode, or the run ends
Open ==
    /\ pc = "open"
    /\ \E outcome \in {"ok", "InvalidPath", "OpenError"} :
         IF outcome = "ok" THEN Goto("strict_check") ELSE Fail(outcome)
    /\ UNCHANGED << inputs, ret, resolved, bounds, scanVars, diff, tgt_copy,
                    prev_copy, output_written, steps >>

\* if cli.strict && !Dimensions::same(..) { exit(1) }
StrictCheck ==
    /\ pc = "strict_check"
    /\ LET src_dimension == Dimensions_from(dimensions(src))
           tgt_dimension == Dimensions_from(dimensions(tgt))
       IN  IF cli.strict /\ ~same(src_dimension, tgt_dimension)
           THEN Fail("DimensionMismatch")
           ELSE Goto("get_max_bounds")
    /\ steps' = IF cli.strict THEN Append(steps, "same") ELSE steps
    /\ UNCHANGED << inputs, ret, resolved, bounds, scanVars, diff, tgt_copy,
                    prev_copy, output_written >>

\* let bounds = match Bounds::get_max_bounds(..) { Ok(b) => b, Err(e) => exit(1) }
ResolveBounds ==
    /\ pc = "get_max_bounds"
    /\ resolved' = get_max_bounds(Dimensions_from(dimensions(src)),
                                Dimensions_from(dimensions(tgt)))
    /\ IF resolved'.tag = "Ok"
       THEN bounds' = resolved'.val /\ Goto("is_greater_than")
       ELSE bounds' = bounds /\ Fail("EmptyIntersection")
    /\ steps' = Append(steps, "get_max_bounds")
    /\ UNCHANGED << inputs, ret, scanVars, diff, tgt_copy, prev_copy, output_written >>

\* the decision of `if !bounds.is_greater_than(cli.block * cli.block)`
BlockRejected(b, block) == ~is_greater_than(b, WrappingMul(block, block))

\* faulty variant: the message is printed but the run goes on to the scan
BlockCheckContinues ==
    /\ pc = "is_greater_than"
    /\ pc' = "percentage_difference"
    /\ exit_code' = exit_code
    /\ err' = IF BlockRejected(bounds, cli.block) THEN "BlockSizeExceedsBounds" ELSE err
    /\ steps' = Append(steps, "is_greater_than")
    /\ UNCHANGED << inputs, ret, resolved, bounds, scanVars, diff, tgt_copy,
                    prev_copy, output_written >>

\* A u32 product that overflows panics in a build with overflow checks and
\* wraps in one without.
BlockCheck ==
    /\ pc = "is_greater_than"
    /\ LET overflow == \/ MulOverflows(cli.block, cli.block)
                       \/ MulOverflows(bounds.max_width, bounds.max_height)
       IN  \E overflow_checks \in (IF overflow THEN BOOLEAN ELSE {FALSE}) :
             IF overflow_checks THEN Panic("overflow")
             ELSE IF BlockRejected(bounds, cli.block)
                  THEN Fail("BlockSizeExceedsBounds")
                  ELSE Goto("percentage_difference")
    /\ steps' = Append(steps, "is_greater_than")
    /\ UNCHANGED << inputs, ret, resolved, bounds, scanVars, diff, tgt_copy,
                    prev_copy, output_written >>

\* entry of percentage_difference: the accumulators, then the stepped ranges;
\* step_by asserts that the step is not 0
ScanStart ==
    /\ pc = "percentage_difference"
    /\ total_diff' = 0
    /\ bounds_with_difference' = << >>
    /\ start_height' = bounds.min_height
    /\ start_width' = bounds.min_width
    /\ IF cli.block = 0 THEN Panic("step_by") ELSE Goto("scan")
    /\ steps' = Append(steps, "percentage_difference")
    /\ UNCHANGED << inputs, ret, resolved, bounds, candidates, diff, tgt_copy,
                    prev_copy, output_written >>

\* if diff != 0 { total_diff += diff; .. }
AddDiff(total, d) == IF d # 0 THEN total + d ELSE total

\* faulty variant: every block is pushed, differing or not
PushAlways(list, current_bound, d) == Append(list, current_bound)

\* if diff != 0 { ..; bounds_with_difference.push(current_bound) }
PushIfDiffers(list, current_bound, d) ==
    IF d # 0 THEN Append(list, current_bound) ELSE list

\* one iteration of the inner loop
ScanBlock ==
    /\ pc = "scan"
    /\ start_height < bounds.max_height
    /\ start_width < bounds.max_width
    /\ LET current_bound == CurrentBound(bounds, start_width, start_height, cli.block)
           d == pixel_difference(src, tgt, current_bound)
       IN  /\ candidates' = Append(candidates, current_bound)
           /\ total_diff' = AddDiff(total_diff, d)
           /\ bounds_with_difference' =
                  PushIfDiffers(bounds_with_difference, current_bound, d)
    /\ start_width' = NextStartWidth(bounds, start_width, cli.block)
    /\ start_height' = NextStartHeight(bounds, start_width, start_height, cli.block)
    /\ UNCHANGED << inputs, pc, ret, resolved, bounds, diff, tgt_copy, prev_copy,
                    err, exit_code, output_written, steps >>

\* both ranges exhausted: the percentage is computed and returned
ScanFinish ==
    /\ pc = "scan"
    /\ ~(start_height < bounds.max_height /\ start_width < bounds.max_width)
    /\ diff' = diff_percentage(total_diff, bounds)
    /\ Goto(IF ret = "run" THEN "report" ELSE "returned")
    /\ UNCHANGED << inputs, ret, resolved, bounds, scanVars, tgt_copy, prev_copy,
                    output_written, steps >>

\* the report: exit(0) when nothing differs or highlighting is off
Report ==
    /\ pc = "report"
    /\ IF IsZero(diff) THEN Succeed
       ELSE IF ~cli.highlight THEN Succeed
       ELSE Goto("copy_image")
    /\ UNCHANGED << inputs, ret, resolved, bounds, scanVars, diff, tgt_copy,
                    prev_copy, output_written, steps >>

\* let mut tgt_copy = copy_image(&tgt); copy_from cannot fail on equal sizes
CopyTarget ==
    /\ pc = "copy_image"
    /\ tgt_copy' = copy_image(tgt)
    /\ Goto("highlight")
    /\ steps' = Append(steps, "copy_image")
    /\ UNCHANGED << inputs, ret, resolved, bounds, scanVars, diff, prev_copy,
                    output_written >>

\* highlight(&mut tgt_copy, bounds_with_diff)
HighlightCall ==
    /\ pc = "highlight"
    /\ IF HighlightPanics(tgt_copy, bounds_with_difference)
       THEN Panic("get_pixel_mut") /\ UNCHANGED << tgt_copy, prev_copy >>
       ELSE /\ prev_copy' = tgt_copy
            /\ tgt_copy' = highlight(tgt_copy, bounds_with_difference)
            /\ Goto(IF ret = "run" THEN "save" ELSE "highlighted")
    /\ steps' = Append(steps, "highlight")
    /\ UNCHANGED << inputs, ret, resolved, bounds, scanVars, diff, output_written >>

\* before the call, the caller adds one more Bounds to the vec! it will pass
PushBound ==
    /\ pc = "highlight"
    /\ ret = "caller"
    /\ Len(bounds_with_difference) < MaxBounds
    /\ \E b \in BoundsInside(HlDim, HlDim, HlDim) :
         bounds_with_difference' = Append(bounds_with_difference, b)
    /\ UNCHANGED << inputs, pc, ret, resolved, bounds, start_height, start_width,
                    total_diff, candidates, diff, tgt_copy, prev_copy, err,
                    exit_code, output_written, steps >>

\* the caller runs highlight once more, same sequence, on the annotated buffer
HighlightAgain ==
    /\ pc = "highlighted"
    /\ prev_copy' = tgt_copy
    /\ tgt_copy' = highlight(tgt_copy, bounds_with_difference)
    /\ Goto("highlighted_twice")
    /\ steps' = Append(steps, "highlight")
    /\ UNCHANGED << inputs, ret, resolved, bounds, scanVars, diff, output_written >>

\* tgt_copy.save(&output).unwrap(): written, or a panic on the i/o error
Save ==
    /\ pc = "save"
    /\ \E written \in BOOLEAN :
         IF written THEN output_written' = TRUE /\ Succeed
         ELSE output_written' = FALSE /\ Panic("save")
    /\ steps' = Append(steps, "save")
    /\ UNCHANGED << inputs, ret, resolved, bounds, scanVars, diff, tgt_copy, prev_copy >>

-----------------------------------------------------------------------------
(* Specifications *)

Next ==
    \/ Open
    \/ StrictCheck
    \/ ResolveBounds
    \/ BlockCheck
    \/ ScanStart
    \/ ScanBlock
    \/ ScanFinish
    \/ Report
    \/ CopyTarget
    \/ HighlightCall
    \/ Save

Spec == Init /\ [][Next]_vars

NextScan ==
    \/ ScanStart
    \/ ScanBlock
    \/ ScanFinish

SpecScan == InitScan /\ [][NextScan]_vars

NextHighlight ==
    \/ PushBound
    \/ HighlightCall
    \/ HighlightAgain

SpecHighlight == InitHighlight /\ [][NextHighlight]_vars

-----------------------------------------------------------------------------
(* Properties: Bounds resolution and the checks of run() (Spec) *)

Smaller(a, b) == IF a < b THEN a ELSE b

LastStep == IF steps = << >> THEN "none" ELSE steps[Len(steps)]

IsPrefix(s, t) == Len(s) <= Len(t) /\ \A i \in 1 .. Len(s) : s[i] = t[i]

\* C1: get_max_bounds returns an error exactly when the smaller width or the
\* smaller height is 0, and otherwise Ok with the Bounds (0, smaller width, 0,
\* smaller height); every Bounds it returns has min < max on both axes.
C1_GetMaxBoundsContract ==
    resolved # NoResult =>
        LET mw == Smaller(src.width, tgt.width)
            mh == Smaller(src.height, tgt.height)
        IN  /\ resolved.tag \in {"Ok", "Err"}
            /\ resolved.tag = "Err" <=> (mw = 0 \/ mh = 0)
            /\ resolved.tag = "Ok" =>
                   /\ resolved.val = [min_width |-> 0, max_width |-> mw,
                                      min_height |-> 0, max_height |-> mh]
                   /\ resolved.val.min_width < resolved.val.max_width
                   /\ resolved.val.min_height < resolved.val.max_height

\* the resolver refused two images that overlap in width but not in height
C1_Witness ==
    /\ resolved # NoResult
    /\ resolved.tag = "Err"
    /\ Smaller(src.width, tgt.width) > 0
    /\ Smaller(src.height, tgt.height) = 0

\* area of the comparison bounds, max_width * max_height
AreaOf(b) == b.max_width * b.max_height

\* block * block > area, as a product of unbounded integers
SquareExceeds(block, area) == MulOverflows(block, block) \/ block * block > area

\* the block-size check ran and gave its verdict (stated for the block sizes
\* whose square is a u32, where no build of the program panics)
BlockCheckDecided == LastStep = "is_greater_than" /\ exit_code # "panic"

\* C2: the block-size check rejects a block size exactly when block * block
\* exceeds the pixel area of the comparison bounds; a block size whose square
\* equals the area is accepted.
C2_BlockCheckRejectsExactlyAboveArea ==
    (BlockCheckDecided /\ ~MulOverflows(cli.block, cli.block)) =>
        (err = "BlockSizeExceedsBounds" <=> SquareExceeds(cli.block, AreaOf(bounds)))

\* C8: get_max_bounds(a, b) and get_max_bounds(b, a) give the same outcome.
C8_GetMaxBoundsCommutes ==
    resolved # NoResult =>
        resolved = get_max_bounds(Dimensions_from(dimensions(tgt)),
                                Dimensions_from(dimensions(src)))

\* resolved for a source narrower and taller than the target
C8_Witness ==
    /\ resolved # NoResult
    /\ resolved.tag = "Ok"
    /\ src.width < tgt.width
    /\ src.height > tgt.height

\* the operations of a run in the order of the code
RunOrder ==
    (IF cli.strict THEN << "same" >> ELSE << >>)
        \o << "get_max_bounds", "is_greater_than", "percentage_difference",
              "copy_image", "highlight", "save" >>

ValidationErrors == {"DimensionMismatch", "EmptyIntersection", "BlockSizeExceedsBounds"}

FailedAt(e) ==
    CASE e = "DimensionMismatch" -> "same"
      [] e = "EmptyIntersection" -> "get_max_bounds"
      [] e = "BlockSizeExceedsBounds" -> "is_greater_than"

\* C9: the operations of a run happen in the fixed order strict check (only
\* when strict is set), bounds resolution, block-size check, scan, then, only
\* if the percentage is non-zero and highlighting was requested, the copy of
\* the target and highlight; a failed validation ends the run in the error
\* exit state and nothing after it executes: no scan, no percentage, no
\* annotated copy, no output.
C9_ValidationOrder ==
    /\ IsPrefix(steps, RunOrder)
    /\ \A i \in 1 .. Len(steps) :
           steps[i] \in {"copy_image", "highlight", "save"} =>
               /\ cli.highlight
               /\ diff # NoPercentage
               /\ ~IsZero(diff)
    /\ ("same" = LastStep /\ dimensions(src) # dimensions(tgt)) =>
           err = "DimensionMismatch"
    /\ (resolved # NoResult /\ resolved.tag = "Err") => err = "EmptyIntersection"
    /\ err \in ValidationErrors =>
           /\ pc = "exit"
           /\ exit_code = "failure"
           /\ LastStep = FailedAt(err)
           /\ candidates = << >>
           /\ diff = NoPercentage
           /\ tgt_copy = NoImage
           /\ ~output_written

\* a strict run of two equally sized images that the block-size check ended
C9_Witness ==
    /\ cli.strict
    /\ err = "BlockSizeExceedsBounds"
    /\ steps = << "same", "get_max_bounds", "is_greater_than" >>
    /\ pc = "exit"

\* C10: every block size that run lets through its block-size check and
\* passes to percentage_difference is >= 1, so no scan is started with a
\* stride of 0 and aborted.
C10_ScannedBlockSizePositive ==
    (ret = "run" /\ pc \in {"percentage_difference", "scan", "report"}) \/ err = "step_by"
        => (cli.block >= 1 /\ err # "step_by")

-----------------------------------------------------------------------------
(* Properties: percentage_difference called directly (SpecScan) *)

\* source and target differ at p in at least one of the four channels
Differs(p) == \E c \in 1 .. 4 : src.px[p][c] # tgt.px[p][c]

\* p lies in the half-open rectangle b
Inside(p, b) ==
    /\ b.min_width <= p[1]
    /\ p[1] < b.max_width
    /\ b.min_height <= p[2]
    /\ p[2] < b.max_height

\* the differing pixel positions inside the comparison bounds
DifferingInBounds == {p \in DOMAIN src.px : Inside(p, bounds) /\ Differs(p)}

\* C3: for Bounds with min_width = min_height = 0, the total mismatch count
\* is the number of in-bounds positions at which the buffers differ in any
\* channel, each counted once and none outside the bounds; the percentage is
\* that count / (max_width * max_height) * 100, zero exactly when no
\* in-bounds pixel differs, and identical buffers give an empty block list.
C3_TotalCountsInBoundsDifferences ==
    (pc = "returned" /\ bounds.min_width = 0 /\ bounds.min_height = 0) =>
        LET count == Cardinality(DifferingInBounds)
        IN  /\ total_diff = count
            /\ diff[2] > 0
            /\ diff[1] * AreaOf(bounds) = count * 100 * diff[2]
            /\ IsZero(diff) <=> DifferingInBounds = {}
            /\ src = tgt => (IsZero(diff) /\ bounds_with_difference = << >>)

\* a scan whose stride does not divide the width counted one difference in
\* the alpha channel alone and left out a differing pixel outside the bounds
C3_Witness ==
    /\ pc = "returned"
    /\ bounds.min_width = 0
    /\ bounds.min_height = 0
    /\ total_diff = 1
    /\ cli.block < bounds.max_width
    /\ bounds.max_width % cli.block # 0
    /\ \E p \in DifferingInBounds : tgt.px[p] = OPAQUE
    /\ \E p \in DOMAIN src.px : Differs(p) /\ ~Inside(p, bounds)

\* the cells of the grid of stride block over the bounds, clipped to them
GridBlocks ==
    {[min_width |-> bounds.min_width + i * cli.block,
      max_width |-> Smaller(bounds.min_width + (i + 1) * cli.block, bounds.max_width),
      min_height |-> bounds.min_height + j * cli.block,
      max_height |-> Smaller(bounds.min_height + (j + 1) * cli.block, bounds.max_height)] :
        i \in {k \in 0 .. MaxDim : bounds.min_width + k * cli.block < bounds.max_width},
        j \in {k \in 0 .. MaxDim : bounds.min_height + k * cli.block < bounds.max_height}}

\* a precedes b in row-major scan order
RowMajorBefore(a, b) ==
    \/ a.min_height < b.min_height
    \/ a.min_height = b.min_height /\ a.min_width < b.min_width

\* C4: the returned sequence holds exactly the grid blocks with at least one
\* differing pixel, each once, ordered by start_height and, within the same
\* start_height, by start_width.
C4_DifferingBlocksInScanOrder ==
    pc = "returned" =>
        /\ {bounds_with_difference[i] : i \in 1 .. Len(bounds_with_difference)}
               = {g \in GridBlocks : \E p \in DOMAIN src.px : Inside(p, g) /\ Differs(p)}
        /\ \A i \in 1 .. Len(bounds_with_difference) :
               \A j \in 1 .. Len(bounds_with_difference) :
                   i < j => RowMajorBefore(bounds_with_difference[i],
                                           bounds_with_difference[j])

\* two differing blocks, the first to the right of and above the second
C4_Witness ==
    /\ pc = "returned"
    /\ Len(bounds_with_difference) = 2
    /\ Len(candidates) > 2
    /\ bounds_with_difference[1].min_height < bounds_with_difference[2].min_height
    /\ bounds_with_difference[1].min_width > bounds_with_difference[2].min_width

\* C5: the candidate blocks of a scan partition the bounds: each lies inside
\* them with min < max on both axes, no two overlap, and every pixel of the
\* bounds, fringe included, lies in exactly one.
C5_CandidatesPartitionBounds ==
    pc = "returned" =>
        /\ \A i \in 1 .. Len(candidates) :
               /\ bounds.min_width <= candidates[i].min_width
               /\ candidates[i].min_width < candidates[i].max_width
               /\ candidates[i].max_width <= bounds.max_width
               /\ bounds.min_height <= candidates[i].min_height
               /\ candidates[i].min_height < candidates[i].max_height
               /\ candidates[i].max_height <= bounds.max_height
        /\ \A p \in DOMAIN src.px :
               Inside(p, bounds) =>
                   Cardinality({i \in 1 .. Len(candidates) : Inside(p, candidates[i])}) = 1

\* a scan of four or more blocks whose stride divides neither side
C5_Witness ==
    /\ pc = "returned"
    /\ Len(candidates) >= 4
    /\ (bounds.max_width - bounds.min_width) % cli.block # 0
    /\ (bounds.max_height - bounds.min_height) % cli.block # 0

-----------------------------------------------------------------------------
(* Properties: highlight called directly (SpecHighlight) *)

\* p is on the one-pixel outline of b
OnBorder(p, b) ==
    \/ /\ p[2] \in {b.min_height, b.max_height - 1}
       /\ b.min_width <= p[1]
       /\ p[1] < b.max_width
    \/ /\ p[1] \in {b.min_width, b.max_width - 1}
       /\ b.min_height <= p[2]
       /\ p[2] < b.max_height

OnSomeBorder(p) ==
    \E i \in 1 .. Len(bounds_with_difference) : OnBorder(p, bounds_with_difference[i])

\* C6: after highlight a pixel on the border of some listed block is opaque
\* red and every other pixel, strictly inside a block or outside all blocks,
\* keeps its previous value.
C6_HighlightDrawsOnlyBorders ==
    pc = "highlighted" =>
        /\ DOMAIN tgt_copy.px = DOMAIN tgt.px
        /\ \A p \in DOMAIN tgt.px :
               tgt_copy.px[p] = IF OnSomeBorder(p) THEN << 255, 0, 0, 255 >> ELSE tgt.px[p]

\* two blocks drawn, one of them one pixel wide, with a pixel strictly inside
\* a block left as it was
C6_Witness ==
    /\ pc = "highlighted"
    /\ Len(bounds_with_difference) = 2
    /\ \E i \in 1 .. 2 :
           bounds_with_difference[i].max_width = bounds_with_difference[i].min_width + 1
    /\ \E p \in DOMAIN tgt.px :
           /\ \E i \in 1 .. 2 : Inside(p, bounds_with_difference[i])
           /\ ~OnSomeBorder(p)
           /\ tgt_copy.px[p] # RED

\* C7: highlight applied a second time with the same sequence to the
\* annotated buffer changes no pixel.
C7_HighlightIdempotent ==
    pc = "highlighted_twice" => tgt_copy = prev_copy

\* a second call after a first one that drew two blocks on the buffer
C7_Witness ==
    /\ pc = "highlighted_twice"
    /\ Len(bounds_with_difference) = 2
    /\ bounds_with_difference[1] # bounds_with_difference[2]
    /\ tgt_copy # tgt

====
